---- MODULE Spec2Model ----
(***************************************************************************)
(* State-machine model of the timetabling core of AZAD_UNIVERSITY:        *)
(*   classes/models.py            ClassSchedule (clean, save, conflicts)  *)
(*   schedules/importers/ai_excel_importer.py   import_ai_excel           *)
(* Times of day are minutes since midnight.  The store is the sequence    *)
(* `schedules`; the primary key of a row is its index (auto-increment).   *)
(***************************************************************************)
EXTENDS Integers, Sequences, FiniteSets, TLC

VARIABLES
    schedules,   \* table classes_classschedule: sequence of rows, pk = index
    courses,     \* table Course: set of course codes
    teachers,    \* table Teacher: set of full names (of the one faculty)
    floors,      \* table Floor: set of floor numbers (of the one faculty)
    rooms,       \* table Room: set of room numbers
    jobs,        \* table ImportJob: sequence of audit rows
    pc,          \* per request in flight: "idle" or "validated" (between full_clean and the INSERT/UPDATE)
    req,         \* per request in flight: the instance being saved and its pk
    last,        \* outcome of the operation that ran last (observation only)
    now,                  \* the clock (timezone.now()), minutes
    cancellation_votes,   \* table ClassCancellationVote: set of rows
    confirmation_votes,   \* table ClassConfirmationVote: set of rows
    accepted,             \* log of the votes that were accepted (observation only)
    response,             \* JSON response of the vote request that ran last
    sweep                 \* the maintenance command that ran last and whether it raised

voteVars == <<now, cancellation_votes, confirmation_votes, accepted, response, sweep>>

vars == <<schedules, courses, teachers, floors, rooms, jobs, pc, req, last, now, cancellation_votes, confirmation_votes, accepted, response, sweep>>

-----------------------------------------------------------------------------
(* Bounds *)

MaxSchedules == 2       \* rows the schedule table may hold
MaxRows == 2            \* data rows of an import file
MaxJobs == 2            \* import invocations
MaxRequests == 2        \* operator requests in flight at once
MaxVotes == 4           \* vote requests that are accepted

-----------------------------------------------------------------------------
(* Values *)

NoTime == -1                    \* start_time / end_time / cancelled_at is NULL
NoSlot == <<>>                  \* time_slot is NULL or ''
NoTeacher == "none"             \* teacher is NULL
NoSemester == "none"            \* semester is NULL
MinutesPerDay == 1440
MinDurationMinutes == 30        \* duration_hours < 0.5
MaxDurationMinutes == 360       \* duration_hours > 6

DAY_CHOICES ==
    {"saturday", "sunday", "monday", "tuesday", "wednesday", "thursday", "friday"}

\* labels 'HH:MM-HH:MM' as <<H, M, H, M>>
TIME_CHOICES_2_OR_LESS ==
    { <<7,30,9,15>>, <<9,15,11,0>>, <<11,0,13,15>>, <<13,15,15,0>>,
      <<15,0,16,45>>, <<16,45,18,0>> }

TIME_CHOICES_3_OR_MORE ==
    { <<7,30,10,10>>, <<10,15,13,30>>, <<13,30,16,0>>, <<16,0,18,30>> }

TIME_CHOICES == TIME_CHOICES_2_OR_LESS \cup TIME_CHOICES_3_OR_MORE

\* time.strftime('%H:%M')
strftime(t) == << t \div 60, t % 60 >>

\* f"{start.strftime('%H:%M')}-{end.strftime('%H:%M')}"
time_slot_value(s, e) == strftime(s) \o strftime(e)

-----------------------------------------------------------------------------
(* ClassSchedule *)

\* a ClassSchedule instance (the persisted columns)
Schedule(course, teacher, room, day, st, en, slot, sem, year, active) ==
    [ course |-> course, teacher |-> teacher, room |-> room,
      day_of_week |-> day, start_time |-> st, end_time |-> en,
      time_slot |-> slot, semester |-> sem, academic_year |-> year,
      is_holding |-> TRUE, cancelled_at |-> NoTime, is_active |-> active,
      student_reported_not_holding |-> FALSE, not_holding_reported_at |-> NoTime,
      student_reported_holding |-> FALSE ]

HasTimes(s) == s.start_time # NoTime /\ s.end_time # NoTime

\* ClassSchedule.get_duration_hours, in minutes (0.5 h = 30, 6 h = 360)
get_duration_hours(s) ==
    IF s.end_time <= s.start_time
    THEN s.end_time + MinutesPerDay - s.start_time
    ELSE s.end_time - s.start_time

\* ClassSchedule.is_time_conflict_with
is_time_conflict_with(self, other) ==
    IF ~(HasTimes(self) /\ HasTimes(other)) THEN FALSE
    ELSE IF self.day_of_week # other.day_of_week THEN FALSE
    ELSE ~(self.end_time < other.start_time \/ other.end_time < self.start_time)

\* room_schedules with the is_active filter inverted
room_schedules_inactive(db, pk, self) ==
    { i \in 1..Len(db) : /\ i # pk
                         /\ db[i].room = self.room
                         /\ db[i].day_of_week = self.day_of_week
                         /\ ~db[i].is_active }

\* ClassSchedule.objects.filter(room=, day_of_week=, is_active=True).exclude(pk=self.pk)
room_schedules(db, pk, self) ==
    { i \in 1..Len(db) : /\ i # pk
                         /\ db[i].room = self.room
                         /\ db[i].day_of_week = self.day_of_week
                         /\ db[i].is_active }

\* teacher_schedules narrowed to the candidate's room
teacher_schedules_same_room(db, pk, self) ==
    { i \in 1..Len(db) : /\ i # pk
                         /\ db[i].teacher = self.teacher
                         /\ db[i].room = self.room
                         /\ db[i].day_of_week = self.day_of_week
                         /\ db[i].is_active }

\* ClassSchedule.objects.filter(teacher=, day_of_week=, is_active=True).exclude(pk=self.pk)
teacher_schedules(db, pk, self) ==
    { i \in 1..Len(db) : /\ i # pk
                         /\ db[i].teacher = self.teacher
                         /\ db[i].day_of_week = self.day_of_week
                         /\ db[i].is_active }

\* RoomConflict over the rows of the filter without .exclude(pk=self.pk)
RoomConflict_with_self(db, pk, self) ==
    /\ HasTimes(self)
    /\ \E i \in room_schedules(db, 0, self) :
          HasTimes(db[i]) /\ is_time_conflict_with(self, db[i])

\* the loop over room_schedules in clean(): does some row collide?
RoomConflict(db, pk, self) ==
    /\ HasTimes(self)
    /\ \E i \in room_schedules(db, pk, self) :
          HasTimes(db[i]) /\ is_time_conflict_with(self, db[i])

\* TeacherConflict without the `if self.teacher` guard
TeacherConflict_unguarded(db, pk, self) ==
    /\ HasTimes(self)
    /\ \E i \in { j \in 1..Len(db) : /\ j # pk
                                     /\ db[j].teacher = self.teacher
                                     /\ db[j].day_of_week = self.day_of_week
                                     /\ db[j].is_active } :
          HasTimes(db[i]) /\ is_time_conflict_with(self, db[i])

\* the loop over teacher_schedules in clean(): does some row collide?
TeacherConflict(db, pk, self) ==
    /\ self.teacher # NoTeacher
    /\ HasTimes(self)
    /\ \E i \in teacher_schedules(db, pk, self) :
          HasTimes(db[i]) /\ is_time_conflict_with(self, db[i])

\* DurationOutOfRange with <= 0.5 and >= 6
DurationOutOfRange_inclusive(self) ==
    \/ get_duration_hours(self) <= MinDurationMinutes
    \/ get_duration_hours(self) >= MaxDurationMinutes

\* clean(): duration_hours < 0.5 or duration_hours > 6
DurationOutOfRange(self) ==
    \/ get_duration_hours(self) < MinDurationMinutes
    \/ get_duration_hours(self) > MaxDurationMinutes

\* clean with the two conflict scans moved before the checks of start/end
clean_conflicts_first(db, pk, self, skip) ==
    IF skip THEN "ok"
    ELSE IF ~HasTimes(self) /\ self.time_slot = NoSlot THEN "timing"
    ELSE IF TeacherConflict(db, pk, self) THEN "teacher"
    ELSE IF RoomConflict(db, pk, self) THEN "room"
    ELSE IF HasTimes(self) /\ self.start_time >= self.end_time THEN "order"
    ELSE IF HasTimes(self) /\ DurationOutOfRange(self) THEN "duration"
    ELSE "ok"

\* ClassSchedule.clean: the first ValidationError raised, or "ok"
clean(db, pk, self, skip) ==
    IF skip THEN "ok"
    ELSE IF ~HasTimes(self) /\ self.time_slot = NoSlot THEN "timing"
    ELSE IF HasTimes(self) /\ self.start_time >= self.end_time THEN "order"
    ELSE IF HasTimes(self) /\ DurationOutOfRange(self) THEN "duration"
    ELSE IF RoomConflict(db, pk, self) THEN "room"
    ELSE IF TeacherConflict(db, pk, self) THEN "teacher"
    ELSE "ok"

\* Model.clean_fields: choices and foreign keys of the instance
clean_fields(self) ==
    /\ self.day_of_week \in DAY_CHOICES
    /\ self.time_slot = NoSlot \/ self.time_slot \in TIME_CHOICES
    /\ self.room \in rooms
    /\ self.course \in courses
    /\ self.teacher = NoTeacher \/ self.teacher \in teachers

\* UniqueViolation with semester as a fifth column of the key
UniqueViolation_per_semester(db, pk, self) ==
    /\ HasTimes(self)
    /\ \E i \in 1..Len(db) :
          /\ i # pk
          /\ db[i].room = self.room
          /\ db[i].day_of_week = self.day_of_week
          /\ db[i].start_time = self.start_time
          /\ db[i].end_time = self.end_time
          /\ db[i].semester = self.semester

\* Meta.unique_together = [room, day_of_week, start_time, end_time]:
\* is there another row with the same key?  (NULLs never collide)
UniqueViolation(db, pk, self) ==
    /\ HasTimes(self)
    /\ \E i \in 1..Len(db) :
          /\ i # pk
          /\ db[i].room = self.room
          /\ db[i].day_of_week = self.day_of_week
          /\ db[i].start_time = self.start_time
          /\ db[i].end_time = self.end_time

\* Model.full_clean as called from save(): clean_fields, clean, validate_unique;
\* the result names the error of clean() when it raised, else the other failure.
full_clean(db, pk, self) ==
    LET c == clean(db, pk, self, FALSE) IN
    IF c # "ok" THEN c
    ELSE IF ~clean_fields(self) THEN "fields"
    ELSE IF UniqueViolation(db, pk, self) THEN "unique"
    ELSE "ok"

\* backfill that writes the label of start/end over a time_slot already set
backfill_overwriting(self) ==
    IF HasTimes(self) /\ time_slot_value(self.start_time, self.end_time) \in TIME_CHOICES
    THEN [self EXCEPT !.time_slot = time_slot_value(self.start_time, self.end_time)]
    ELSE self

\* save(): backfill of time_slot from start_time/end_time
backfill(self) ==
    IF HasTimes(self) /\ self.time_slot = NoSlot
       /\ time_slot_value(self.start_time, self.end_time) \in TIME_CHOICES
    THEN [self EXCEPT !.time_slot = time_slot_value(self.start_time, self.end_time)]
    ELSE self

\* super().save(): INSERT (pk = Len+1) or UPDATE of row pk
db_write(db, pk, self) ==
    IF pk = Len(db) + 1 THEN Append(db, self) ELSE [db EXCEPT ![pk] = self]

\* ClassSchedule.save: the error raised ("ok" when the row is written)
save_result(db, pk, self, skip) ==
    LET inst == backfill(self)
        v == IF skip THEN "ok" ELSE full_clean(db, pk, inst)
    IN IF v # "ok" THEN v
       ELSE IF UniqueViolation(db, pk, inst) THEN "integrity"
       ELSE "ok"

\* save that writes the row without waiting for full_clean
save_unvalidated(db, pk, self, skip) == db_write(db, pk, backfill(self))

\* ClassSchedule.save: the table afterwards
save(db, pk, self, skip) ==
    IF save_result(db, pk, self, skip) = "ok"
    THEN db_write(db, pk, backfill(self))
    ELSE db

-----------------------------------------------------------------------------
(* import_ai_excel *)

DAY_MAP ==
    [ d \in {"shanbe", "yekshanbe", "doshanbe", "seshanbe", "chaharshanbe",
             "panjshanbe", "jome"} |->
        CASE d = "shanbe" -> "saturday"
          [] d = "yekshanbe" -> "sunday"
          [] d = "doshanbe" -> "monday"
          [] d = "seshanbe" -> "tuesday"
          [] d = "chaharshanbe" -> "wednesday"
          [] d = "panjshanbe" -> "thursday"
          [] d = "jome" -> "friday" ]

DefaultTeacherName == "namoshakhas"    \* teacher_name = 'نامشخص' when the cell is empty

\* a calendar cell: does CAL_REGEX match, and the three groups it captures
Cal(match, day_fa, sh, sm, eh, em) ==
    [ match |-> match, day_fa |-> day_fa, sh |-> sh, sm |-> sm, eh |-> eh, em |-> em ]

\* a data row of the sheet
Row(code, teacher, room, cal) ==
    [ course_code |-> code, teacher_name |-> teacher, room_name |-> room, cal |-> cal ]

\* _safe_time: dtime(hour=int(h), minute=int(m)) raises outside 0..23 / 0..59
safe_time_ok(h, m) == h \in 0..23 /\ m \in 0..59
_safe_time(h, m) == h * 60 + m

\* floor number from the room number: its tens digit, 0 below 10
floor_number(room_num) == IF room_num >= 10 THEN (room_num \div 10) % 10 ELSE 0

\* ClassSchedule.objects.filter(room, day_of_week, start_time, end_time, semester).first()
find_schedule(db, room, day, st, en, sem) ==
    LET hits == { i \in 1..Len(db) : /\ db[i].room = room
                                     /\ db[i].day_of_week = day
                                     /\ db[i].start_time = st
                                     /\ db[i].end_time = en
                                     /\ db[i].semester = sem }
    IN IF hits = {} THEN 0 ELSE CHOOSE i \in hits : \A j \in hits : i <= j

\* the open transaction of one import: the tables as the transaction sees
\* them, Django's needs_rollback flag, the counters and the outcome per row
Tx(db, cs, ts, fs, rs) ==
    [ schedules |-> db, courses |-> cs, teachers |-> ts, floors |-> fs, rooms |-> rs,
      needs_rollback |-> FALSE, inserted |-> 0, updated |-> 0, results |-> << >> ]

RowError(tx, kind) == [tx EXCEPT !.results = Append(@, kind)]

\* schedule._skip_validation = True with the flag left unset
import_skip_validation_unset == FALSE

\* schedule._skip_validation = True, set on the instance before save()
import_skip_validation == TRUE

\* the error_type the except block gives to an exception of schedule.save()
save_error_type(err) ==
    CASE err = "room" -> "room_conflict_errors"
      [] err = "teacher" -> "teacher_conflict_errors"
      [] err = "integrity" -> "duplicate_schedules"
      [] OTHER -> "validation_errors"

\* schedule.save() of the import and the bookkeeping after it; an
\* IntegrityError of the INSERT/UPDATE inside atomic() marks the transaction
\* for rollback
save_imported(tx, pk, inst, created) ==
    LET err == save_result(tx.schedules, pk, inst, import_skip_validation) IN
    IF err = "ok"
    THEN [tx EXCEPT !.schedules = save(@, pk, inst, import_skip_validation),
                    !.inserted = IF created THEN @ + 1 ELSE @,
                    !.updated = IF created THEN @ ELSE @ + 1,
                    !.results = Append(@, IF created THEN "inserted" ELSE "updated")]
    ELSE [tx EXCEPT !.needs_rollback = @ \/ err = "integrity",
                    !.results = Append(@, save_error_type(err))]

\* the upsert of the schedule of one row, keyed by (room, day, start, end, semester)
upsert_schedule(tx, row, day_en, st, en, semester, academic_year) ==
    LET teacher == IF row.teacher_name = "" THEN DefaultTeacherName ELSE row.teacher_name
        pk == find_schedule(tx.schedules, row.room_name, day_en, st, en, semester)
    IN IF pk # 0
       THEN save_imported(tx, pk,
                          [tx.schedules[pk] EXCEPT !.course = row.course_code,
                                                   !.teacher = teacher,
                                                   !.academic_year = academic_year,
                                                   !.is_active = TRUE],
                          FALSE)
       ELSE save_imported(tx, Len(tx.schedules) + 1,
                          Schedule(row.course_code, teacher, row.room_name, day_en,
                                   st, en, NoSlot, semester, academic_year, TRUE),
                          TRUE)

\* the body of the per-row try block; every exception becomes a row error
import_row(tx, row, semester, academic_year) ==
    LET cal == row.cal IN
    IF ~cal.match THEN RowError(tx, "parsing_errors")
    ELSE IF cal.day_fa \notin DOMAIN DAY_MAP THEN RowError(tx, "invalid_day")
    ELSE IF ~(safe_time_ok(cal.sh, cal.sm) /\ safe_time_ok(cal.eh, cal.em))
         THEN RowError(tx, "unknown")
    ELSE IF row.course_code = "" THEN RowError(tx, "missing_course_code")
    ELSE IF tx.needs_rollback
         THEN \* TransactionManagementError on the first query of the row
              RowError(tx, "transaction_management_error")
    ELSE
      LET st == _safe_time(cal.sh, cal.sm)
          en == _safe_time(cal.eh, cal.em)
          teacher == IF row.teacher_name = "" THEN DefaultTeacherName ELSE row.teacher_name
          t1 == [tx EXCEPT !.courses = @ \cup {row.course_code},
                           !.teachers = @ \cup {teacher},
                           !.floors = @ \cup {floor_number(row.room_name)},
                           !.rooms = @ \cup {row.room_name}]
          minutes == IF en <= st THEN en + MinutesPerDay - st ELSE en - st
      IN IF st >= en THEN RowError(t1, "unknown")
         ELSE IF minutes < MinDurationMinutes \/ minutes > MaxDurationMinutes
              THEN RowError(t1, "invalid_duration")
         ELSE upsert_schedule(t1, row, DAY_MAP[cal.day_fa], st, en, semester, academic_year)

\* for idx, row in df.iterrows(): ...
RECURSIVE import_rows(_, _, _, _, _)
import_rows(tx, file, i, semester, academic_year) ==
    IF i > Len(file) THEN tx
    ELSE import_rows(import_row(tx, file[i], semester, academic_year),
                     file, i + 1, semester, academic_year)

\* the transaction at the end of the `with transaction.atomic()` block
import_tx(db, cs, ts, fs, rs, file, semester, academic_year) ==
    import_rows(Tx(db, cs, ts, fs, rs), file, 1, semester, academic_year)

\* import_commits without the set_rollback(True) of the dry run
import_commits_ignoring_dry_run(tx, dry_run) == ~tx.needs_rollback

\* does the atomic block commit?  (dry run: set_rollback(True))
import_commits(tx, dry_run) == ~dry_run /\ ~tx.needs_rollback

\* the ImportJob row as finalized in the `finally` block
import_job(tx, file, semester, dry_run) ==
    [ semester |-> semester, dry_run |-> dry_run, status |-> "completed",
      total |-> Len(file), inserted |-> tx.inserted, updated |-> tx.updated,
      errors |-> { i \in 1..Len(tx.results) : tx.results[i] \notin {"inserted", "updated"} } ]

-----------------------------------------------------------------------------
(* Inputs of the operator paths *)

OpRooms == {318, 324}
OpTeachers == {NoTeacher, "t1"}
OpCourses == {"c1"}

\* <<start_time, end_time>> offered to the validated save:
\* 07:30-09:15 and 09:15-11:00 (two consecutive legacy slots), 07:30-08:00
OpTimes == { <<450, 555>>, <<555, 660>>, <<450, 480>> }

\* the active candidates of Saturday: every room, teacher and time
SaturdayCandidates ==
    { Schedule(c, t, r, "saturday", tm[1], tm[2], NoSlot, NoSemester, "y1", TRUE) :
        c \in OpCourses, t \in OpTeachers, r \in OpRooms, tm \in OpTimes }

\* the same slot on another day: room 318, Sunday 07:30-09:15
SundayCandidates ==
    { Schedule("c1", t, 318, "sunday", 450, 555, NoSlot, NoSemester, "y1", TRUE) :
        t \in OpTeachers }

\* soft-deleted candidates (is_active = False): room 318, Saturday, teacher t1
InactiveCandidates ==
    { Schedule("c1", "t1", 318, "saturday", tm[1], tm[2], NoSlot, NoSemester, "y1", FALSE) :
        tm \in OpTimes }

RegularCandidates == SaturdayCandidates \cup SundayCandidates \cup InactiveCandidates

\* candidates at the edges of the field checks, room 318 on Saturday, no
\* teacher: 29, 360 and 361 minutes, end before start, no timing at all,
\* and a legacy time_slot without start/end
EdgeTimes == { <<450, 479>>, <<450, 810>>, <<450, 811>>, <<555, 450>>, <<NoTime, NoTime>> }

EdgeCandidates ==
    { Schedule("c1", NoTeacher, 318, "saturday", tm[1], tm[2], NoSlot, NoSemester, "y1", TRUE) :
        tm \in EdgeTimes }
    \cup
    { Schedule("c1", NoTeacher, 318, "saturday", NoTime, NoTime, <<7, 30, 9, 15>>,
               NoSemester, "y1", TRUE) }

OpCandidates == RegularCandidates

\* the schedule of ModelTests.setUp: teacher, course, room, Monday and
\* time_slot='8:00', no start/end
TestCandidates ==
    { Schedule("c1", "t1", 318, "monday", NoTime, NoTime, <<8, 0>>, NoSemester, "y1", TRUE) }

\* candidates of the field-check specification: the edge candidates, the
\* schedule of the model tests and the regular active ones of Saturday
FieldCandidates == EdgeCandidates \cup TestCandidates \cup SaturdayCandidates

Idle == [state |-> "idle"]

\* no vote was accepted yet: the accepted votes and their number
NoneAccepted == [votes |-> {}, n |-> 0]

\* no maintenance command has run yet
NoSweep == [op |-> "none", raised |-> FALSE]

\* no vote request has run yet
NoResponse == [success |-> FALSE, error |-> "no_request"]

\* what the last operation did: op, the error it raised (err), whether it
\* changed the schedule table, and for an import its arguments, the outcome
\* of each row, the returned counts, whether its transaction was committed
\* and, when it repeats the import that ran immediately before it (same
\* file and semester, both real runs), the inserted count of that run (else -1)
Outcome(op, err, changed, file, semester, dry_run, results, inserted, updated, committed, rerun_of) ==
    [ op |-> op, err |-> err, changed |-> changed, file |-> file,
      semester |-> semester, dry_run |-> dry_run, results |-> results,
      inserted |-> inserted, updated |-> updated, committed |-> committed,
      rerun_of |-> rerun_of ]

SaveOutcome(err, changed) ==
    Outcome("save", err, changed, << >>, NoSemester, FALSE, << >>, 0, 0, FALSE, -1)

Init ==
    /\ schedules = << >>
    /\ courses = OpCourses
    /\ teachers = OpTeachers \ {NoTeacher}
    /\ floors = { floor_number(r) : r \in OpRooms }
    /\ rooms = OpRooms
    /\ jobs = << >>
    /\ pc = "idle"
    /\ req = Idle
    /\ last = Outcome("none", "ok", FALSE, << >>, NoSemester, FALSE, << >>, 0, 0, FALSE, -1)
    /\ now = 0
    /\ cancellation_votes = {}
    /\ confirmation_votes = {}
    /\ accepted = NoneAccepted
    /\ response = NoResponse
    /\ sweep = NoSweep

\* getattr(self, '_skip_validation', False) with the attribute set
operator_skip_validation_set == TRUE

\* getattr(self, '_skip_validation', False) of an instance built by a form or
\* by the chart endpoint, or loaded from the table: the attribute is not set
operator_skip_validation == FALSE

\* One operator create (pk = Len+1) or update (pk <= Len) through
\* ClassSchedule.save() with validation on, executed without interleaving.
Save(pk, cand) ==
    /\ pk \in 1..(Len(schedules) + 1)
    /\ pk <= MaxSchedules
    /\ schedules' = save(schedules, pk, cand, operator_skip_validation)
    /\ last' = SaveOutcome(save_result(schedules, pk, cand, operator_skip_validation),
                           save(schedules, pk, cand, operator_skip_validation) # schedules)
    /\ UNCHANGED <<courses, teachers, floors, rooms, jobs, pc, req>>
    /\ UNCHANGED voteVars

OperatorSave == \E pk \in 1..MaxSchedules, cand \in OpCandidates : Save(pk, cand)

Next == OperatorSave

Spec == Init /\ [][Next]_vars

-----------------------------------------------------------------------------
(* Operator saves at the edges of the field checks *)

FieldSave == \E pk \in 1..MaxSchedules, cand \in FieldCandidates : Save(pk, cand)

NextFields == FieldSave

SpecFields == Init /\ [][NextFields]_vars

-----------------------------------------------------------------------------
(* Concurrent operator saves: full_clean() and the INSERT/UPDATE of one      *)
(* save() are separate statements in autocommit mode, so requests interleave *)
(* between them.                                                             *)

ConcCandidates == SaturdayCandidates

Requests == 1..MaxRequests

PendingCreates == Cardinality({ r \in Requests : pc[r] = "validated" /\ req[r].pk = 0 })

\* save() up to and including self.full_clean(); pk = 0 is a new instance
BeginSave(r, pk, cand) ==
    /\ pc[r] = "idle"
    /\ pk \in 0..Len(schedules)
    /\ pk = 0 => Len(schedules) + PendingCreates < MaxSchedules
    /\ LET inst == backfill(cand)
           v == full_clean(schedules, pk, inst)
       IN IF v = "ok"
          THEN /\ pc' = [pc EXCEPT ![r] = "validated"]
               /\ req' = [req EXCEPT ![r] = [state |-> "validated", pk |-> pk, inst |-> inst]]
               /\ UNCHANGED last
          ELSE /\ last' = SaveOutcome(v, FALSE)
               /\ UNCHANGED <<pc, req>>
    /\ UNCHANGED <<schedules, courses, teachers, floors, rooms, jobs>>
    /\ UNCHANGED voteVars

\* super().save(): the INSERT or UPDATE, under the unique key of the table
FinishSave(r) ==
    /\ pc[r] = "validated"
    /\ LET pk == IF req[r].pk = 0 THEN Len(schedules) + 1 ELSE req[r].pk
           inst == req[r].inst
       IN IF UniqueViolation(schedules, pk, inst)
          THEN /\ last' = SaveOutcome("integrity", FALSE)
               /\ UNCHANGED schedules
          ELSE /\ schedules' = db_write(schedules, pk, inst)
               /\ last' = SaveOutcome("ok", db_write(schedules, pk, inst) # schedules)
    /\ pc' = [pc EXCEPT ![r] = "idle"]
    /\ req' = [req EXCEPT ![r] = Idle]
    /\ UNCHANGED <<courses, teachers, floors, rooms, jobs>>
    /\ UNCHANGED voteVars

InitConc ==
    /\ schedules = << >>
    /\ courses = OpCourses
    /\ teachers = OpTeachers \ {NoTeacher}
    /\ floors = { floor_number(r) : r \in OpRooms }
    /\ rooms = OpRooms
    /\ jobs = << >>
    /\ pc = [r \in Requests |-> "idle"]
    /\ req = [r \in Requests |-> Idle]
    /\ last = Outcome("none", "ok", FALSE, << >>, NoSemester, FALSE, << >>, 0, 0, FALSE, -1)
    /\ now = 0
    /\ cancellation_votes = {}
    /\ confirmation_votes = {}
    /\ accepted = NoneAccepted
    /\ response = NoResponse
    /\ sweep = NoSweep

Validate == \E r \in Requests, pk \in 0..MaxSchedules, cand \in ConcCandidates : BeginSave(r, pk, cand)

Write == \E r \in Requests : FinishSave(r)

NextConc == Validate \/ Write

SpecConc == InitConc /\ [][NextConc]_vars

-----------------------------------------------------------------------------
(* Bulk import followed by operator edits *)

ImportRows ==
    { Row("c1", "t1", 318, Cal(TRUE, "shanbe", 7, 30, 9, 15)),
      Row("c2", "t2", 318, Cal(TRUE, "shanbe", 7, 30, 8, 0)),
      Row("c2", "t1", 318, Cal(TRUE, "shanbe", 7, 30, 9, 15)),
      Row("c1", "t1", 318, Cal(FALSE, "", 0, 0, 0, 0)),
      Row("c1", "t1", 318, Cal(TRUE, "funday", 7, 30, 9, 15)),
      Row("c1", "t1", 324, Cal(TRUE, "shanbe", 7, 30, 7, 59)) }

ImportFiles == UNION { [1..n -> ImportRows] : n \in 1..MaxRows }

ImportSemesters == {"s1"}

\* operator candidates of this specification: room 318 on Saturday
ImpOpCandidates ==
    { Schedule("c1", "t1", 318, "saturday", tm[1], tm[2], NoSlot, NoSemester, "y1", TRUE) :
        tm \in OpTimes }

\* import_ai_excel(path, faculty, semester, academic_year, dry_run)
Import(file, semester, dry_run) ==
    LET tx == import_tx(schedules, courses, teachers, floors, rooms, file, semester, "y1")
        commit == import_commits(tx, dry_run)
    IN /\ Len(jobs) < MaxJobs
       /\ Len(tx.schedules) <= MaxSchedules
       /\ jobs' = Append(jobs, import_job(tx, file, semester, dry_run))
       /\ schedules' = IF commit THEN tx.schedules ELSE schedules
       /\ courses' = IF commit THEN tx.courses ELSE courses
       /\ teachers' = IF commit THEN tx.teachers ELSE teachers
       /\ floors' = IF commit THEN tx.floors ELSE floors
       /\ rooms' = IF commit THEN tx.rooms ELSE rooms
       /\ last' = Outcome("import", "ok", commit /\ tx.schedules # schedules,
                          file, semester, dry_run, tx.results,
                          tx.inserted, tx.updated, commit,
                          IF /\ last.op = "import" /\ last.file = file
                             /\ last.semester = semester
                             /\ ~last.dry_run /\ ~dry_run
                          THEN last.inserted ELSE -1)
       /\ UNCHANGED <<pc, req>>
       /\ UNCHANGED voteVars

BulkImport ==
    \E file \in ImportFiles, semester \in ImportSemesters, dry_run \in BOOLEAN :
        Import(file, semester, dry_run)

EditAfterImport == \E pk \in 1..MaxSchedules, cand \in ImpOpCandidates : Save(pk, cand)

NextImport == BulkImport \/ EditAfterImport

SpecImport == Init /\ [][NextImport]_vars

-----------------------------------------------------------------------------
(* Import of overlapping rows followed by operator edits *)

\* two rows that overlap in room 318 on Saturday: 07:30-09:15 and 07:30-08:00
OverlappingRows ==
    { Row("c1", "t1", 318, Cal(TRUE, "shanbe", 7, 30, 9, 15)),
      Row("c2", "t2", 318, Cal(TRUE, "shanbe", 7, 30, 8, 0)) }

OverlappingFiles == UNION { [1..n -> OverlappingRows] : n \in 1..MaxRows }

ImportOverlapping == \E file \in OverlappingFiles : Import(file, "s1", FALSE)

NextImportEdit == ImportOverlapping \/ EditAfterImport

SpecImportEdit == Init /\ [][NextImportEdit]_vars

-----------------------------------------------------------------------------
(* Dry-run and real imports of three small sheets under two semesters *)

\* a valid row with a row whose calendar cell does not parse; two rows that
\* overlap in room 318 on Saturday; the shorter of the two alone
DryRunFiles ==
    { << Row("c2", "t2", 318, Cal(TRUE, "shanbe", 7, 30, 9, 15)),
         Row("c1", "t1", 318, Cal(FALSE, "", 0, 0, 0, 0)) >>,
      << Row("c1", "t1", 318, Cal(TRUE, "shanbe", 7, 30, 9, 15)),
         Row("c2", "t2", 318, Cal(TRUE, "shanbe", 7, 30, 8, 0)) >>,
      << Row("c2", "t2", 318, Cal(TRUE, "shanbe", 7, 30, 8, 0)) >> }

DryRunSemesters == {"s1", "s2"}

ImportDryOrReal ==
    \E file \in DryRunFiles, semester \in DryRunSemesters, dry_run \in BOOLEAN :
        Import(file, semester, dry_run)

NextDryRun == ImportDryOrReal

SpecDryRun == Init /\ [][NextDryRun]_vars

-----------------------------------------------------------------------------
(* Operator saves and imports that meet on one key *)

\* operator candidates on the two keys of the sheets (room 318, Saturday,
\* 07:30-09:15 and 07:30-08:00), active and inactive
UniqueCandidates ==
    { Schedule("c1", "t1", 318, "saturday", tm[1], tm[2], NoSlot, NoSemester, "y1", active) :
        tm \in { <<450, 555>>, <<450, 480>> }, active \in BOOLEAN }

UniqueSave == \E pk \in 1..MaxSchedules, cand \in UniqueCandidates : Save(pk, cand)

\* real imports of the sheets under either semester
UniqueImport ==
    \E file \in DryRunFiles, semester \in DryRunSemesters : Import(file, semester, FALSE)

NextUnique == UniqueImport \/ UniqueSave

SpecUnique == Init /\ [][NextUnique]_vars

-----------------------------------------------------------------------------
(* Student votes: vote_class_cancellation and vote_class_confirmation *)

Directions == {"cancellation", "confirmation"}

Opposite(direction) == IF direction = "cancellation" THEN "confirmation" ELSE "cancellation"

WindowMinutes == 1440           \* timedelta(hours=24)
VoteThreshold == 3              \* vote_count >= 3

\* sha256(ip_address + user_agent + direction): one identity per client and direction
voter_identifier(client, direction) == <<client, direction>>

\* a row of ClassCancellationVote / ClassConfirmationVote
Vote(s, vid, t) == [schedule |-> s, voter_identifier |-> vid, voted_at |-> t]

\* filter(schedule=schedule, voted_at__gte=timezone.now() - timedelta(hours=24))
recent_votes(votes, s, t) ==
    { v \in votes : v.schedule = s /\ v.voted_at >= t - WindowMinutes }

\* existing_vote with the comparison of the window turned round (voted_at__lte)
existing_vote_lte(votes, s, vid, t) ==
    { v \in votes : /\ v.schedule = s
                    /\ v.voter_identifier = vid
                    /\ v.voted_at <= t - WindowMinutes }

\* the "already voted" query: votes of this voter for this schedule in the window
existing_vote(votes, s, vid, t) ==
    { v \in votes : /\ v.schedule = s
                    /\ v.voter_identifier = vid
                    /\ v.voted_at >= t - WindowMinutes }

\* oldest_votes ordered by '-voted_at': the newest rows of the window
oldest_votes_descending(votes, s, t) ==
    { v \in recent_votes(votes, s, t) :
        \A w \in recent_votes(votes, s, t) : v.voted_at >= w.voted_at }

\* .order_by('voted_at').first(): the rows the database may return first
oldest_votes(votes, s, t) ==
    { v \in recent_votes(votes, s, t) :
        \A w \in recent_votes(votes, s, t) : v.voted_at <= w.voted_at }

\* schedule.get_cancellation_vote_count() / get_confirmation_vote_count():
\* the votes of the schedule within the trailing 24 hours
get_vote_count(votes, s, t) == Cardinality(recent_votes(votes, s, t))

\* schedule.check_and_update_holding_status(): the threshold rule on both pools
check_and_update_holding_status(sch, cancel_count, confirm_count, t) ==
    [sch EXCEPT
       !.student_reported_not_holding = cancel_count >= VoteThreshold,
       !.not_holding_reported_at =
           IF cancel_count >= VoteThreshold
           THEN (IF sch.student_reported_not_holding THEN @ ELSE t)
           ELSE NoTime,
       !.student_reported_holding = confirm_count >= VoteThreshold]

\* the status update of a view that also takes the schedule off (is_holding
\* false, cancelled_at stamped) when the cancellation threshold is reached
update_holding_status_cancelling(db, s, cancel_count, confirm_count, t) ==
    [db EXCEPT ![s] =
        [check_and_update_holding_status(db[s], cancel_count, confirm_count, t)
            EXCEPT !.is_holding = IF cancel_count >= VoteThreshold THEN FALSE ELSE @,
                   !.cancelled_at = IF cancel_count >= VoteThreshold THEN t ELSE @]]

\* "Update schedule status": schedule.check_and_update_holding_status() on
\* the schedule the view fetched; the view assigns no field of it itself
update_holding_status(db, s, cancel_count, confirm_count, t) ==
    [db EXCEPT ![s] = check_and_update_holding_status(db[s], cancel_count, confirm_count, t)]

\* VoteResponse with 'threshold_reached': vote_count > 3
VoteResponse_above(success, already_voted, s, client, direction, vote_count, other_count, flag) ==
    [ success |-> success, already_voted |-> already_voted, schedule |-> s,
      client |-> client, direction |-> direction, vote_count |-> vote_count,
      other_count |-> other_count,
      threshold_reached |-> success /\ vote_count > VoteThreshold,
      student_reported |-> flag, error |-> "none" ]

\* JsonResponse of a vote request, with the request it answers
VoteResponse(success, already_voted, s, client, direction, vote_count, other_count, flag) ==
    [ success |-> success, already_voted |-> already_voted, schedule |-> s,
      client |-> client, direction |-> direction, vote_count |-> vote_count,
      other_count |-> other_count,
      threshold_reached |-> success /\ vote_count >= VoteThreshold,
      student_reported |-> flag, error |-> "none" ]

\* the tables after the vote of direction was recorded and victim, an
\* opposing vote or none, was deleted (victims is empty or {victim})
VotesAfter(votes, direction, of, s, vid, victims, t) ==
    IF direction = of THEN votes \cup {Vote(s, vid, t)} ELSE votes \ victims

\* vote_class_cancellation / vote_class_confirmation, executed without interleaving
CastVote(s, client, direction) ==
    LET vid == voter_identifier(client, direction)
        own == IF direction = "cancellation" THEN cancellation_votes ELSE confirmation_votes
        opp == IF direction = "cancellation" THEN confirmation_votes ELSE cancellation_votes
    IN
    IF s \notin 1..Len(schedules) \/ ~schedules[s].is_active
    THEN \* get_object_or_404 raises, caught by `except Exception`
         /\ response' = [success |-> FALSE, error |-> "not_found"]
         /\ UNCHANGED <<now, cancellation_votes, confirmation_votes, accepted, schedules>>
    ELSE IF existing_vote(own, s, vid, now) # {}
    THEN /\ response' = VoteResponse(FALSE, TRUE, s, client, direction,
                                     get_vote_count(own, s, now), 0, FALSE)
         /\ UNCHANGED <<now, cancellation_votes, confirmation_votes, accepted, schedules>>
    ELSE /\ accepted.n < MaxVotes
         /\ \E victims \in (IF oldest_votes(opp, s, now) = {} THEN {{}}
                              ELSE { {v} : v \in oldest_votes(opp, s, now) }) :
              LET cv == VotesAfter(cancellation_votes, direction, "cancellation", s, vid, victims, now)
                  fv == VotesAfter(confirmation_votes, direction, "confirmation", s, vid, victims, now)
                  cc == get_vote_count(cv, s, now)
                  fc == get_vote_count(fv, s, now)
                  sch == check_and_update_holding_status(schedules[s], cc, fc, now)
              IN /\ cancellation_votes' = cv
                 /\ confirmation_votes' = fv
                 /\ schedules' = update_holding_status(schedules, s, cc, fc, now)
                 /\ response' =
                       IF direction = "cancellation"
                       THEN VoteResponse(TRUE, FALSE, s, client, direction, cc, fc,
                                         sch.student_reported_not_holding)
                       ELSE VoteResponse(TRUE, FALSE, s, client, direction, fc, cc,
                                         sch.student_reported_holding)
         /\ accepted' = [votes |-> accepted.votes \cup
                                      {[schedule |-> s, client |-> client,
                                        direction |-> direction, at |-> now]},
                         n |-> accepted.n + 1]
         /\ UNCHANGED now

\* the clock advances to the instant t
Tick(t) ==
    /\ t > now
    /\ now' = t
    /\ UNCHANGED <<schedules, courses, teachers, floors, rooms, jobs, pc, req, last>>
    /\ UNCHANGED <<cancellation_votes, confirmation_votes, accepted, response, sweep>>

\* three clients; schedule 2 is voted on by client a only
Clients == {"a", "b", "c"}

VoteInputs ==
    { <<1, c, d>> : c \in Clients, d \in Directions } \cup { <<2, "a", "cancellation">> }

\* the instants at which requests arrive: the start, 24 hours later and a
\* minute after that
VoteInstants == {0, WindowMinutes, WindowMinutes + 1}

\* the store the students vote on: two active schedules saved by an operator
VoteStore ==
    << Schedule("c1", "t1", 318, "saturday", 450, 555, <<7, 30, 9, 15>>, NoSemester, "y1", TRUE),
       Schedule("c1", NoTeacher, 324, "saturday", 450, 555, <<7, 30, 9, 15>>, NoSemester, "y1", TRUE) >>

InitVotes ==
    /\ schedules = VoteStore
    /\ courses = OpCourses
    /\ teachers = OpTeachers \ {NoTeacher}
    /\ floors = { floor_number(r) : r \in OpRooms }
    /\ rooms = OpRooms
    /\ jobs = << >>
    /\ pc = "idle"
    /\ req = Idle
    /\ last = Outcome("none", "ok", FALSE, << >>, NoSemester, FALSE, << >>, 0, 0, FALSE, -1)
    /\ now = 0
    /\ cancellation_votes = {}
    /\ confirmation_votes = {}
    /\ accepted = NoneAccepted
    /\ response = NoResponse
    /\ sweep = NoSweep

StudentVote ==
    /\ \E in \in VoteInputs : CastVote(in[1], in[2], in[3])
    /\ UNCHANGED <<courses, teachers, floors, rooms, jobs, pc, req, last, sweep>>

ClockTick == \E t \in VoteInstants : Tick(t)

NextVotes == StudentVote \/ ClockTick

SpecVotes == InitVotes /\ [][NextVotes]_vars

-----------------------------------------------------------------------------
(* Admin holding actions and the auto-expiry sweep *)

ResetMinutes == 120             \* timezone.timedelta(hours=2)

\* filter(is_holding=False, cancelled_at__isnull=False, cancelled_at__lte=threshold)
auto_reset_filter(sch, t) ==
    /\ ~sch.is_holding
    /\ sch.cancelled_at # NoTime
    /\ sch.cancelled_at <= t - ResetMinutes

\* ClassSchedule.auto_reset_cancelled_schedules: the table after the update
auto_reset_cancelled_schedules(db, t) ==
    [ i \in 1..Len(db) |->
        IF auto_reset_filter(db[i], t)
        THEN [db[i] EXCEPT !.is_holding = TRUE, !.cancelled_at = NoTime]
        ELSE db[i] ]

\* ClassScheduleAdmin.unhold_schedules: queryset.update(is_holding=False)
unhold_schedules(db, queryset) ==
    [ i \in 1..Len(db) |->
        IF i \in queryset THEN [db[i] EXCEPT !.is_holding = FALSE] ELSE db[i] ]

\* ClassScheduleAdmin.hold_schedules: queryset.update(is_holding=True)
hold_schedules(db, queryset) ==
    [ i \in 1..Len(db) |->
        IF i \in queryset THEN [db[i] EXCEPT !.is_holding = TRUE] ELSE db[i] ]

\* save_schedule_view, update of an existing schedule: the scan for another
\* active schedule of the room and day whose interval overlaps the posted one
chart_conflict(db, pk, self) ==
    \E i \in 1..Len(db) :
        /\ i # pk
        /\ db[i].is_active
        /\ db[i].room = self.room
        /\ db[i].day_of_week = self.day_of_week
        /\ HasTimes(db[i])
        /\ ~(self.end_time <= db[i].start_time \/ db[i].end_time <= self.start_time)

\* Course.credit_hours (default=3) of the courses of the table
credit_hours(course) == 3

\* the two credit buckets of the legacy slots: <= 2 and >= 3 credit hours
same_bucket(a, b) == (credit_hours(a) <= 2) = (credit_hours(b) <= 2)

\* save_schedule_view, update without start/end posted: another active
\* schedule of the room and day with the intended time_slot and credit bucket
chart_slot_conflict(db, pk, post) ==
    LET intended == IF post.time_slot # NoSlot THEN post.time_slot ELSE db[pk].time_slot
    IN \E i \in 1..Len(db) :
          /\ i # pk
          /\ db[i].is_active
          /\ db[i].room = post.room
          /\ db[i].day_of_week = post.day_of_week
          /\ db[i].time_slot = intended
          /\ same_bucket(db[i].course, post.course)

\* save_schedule_view, update: the posted values assigned to the loaded
\* schedule; time_slot is replaced only by a posted start/end that spells a
\* predefined label, or by a posted time_slot when no start/end is posted
chart_instance(row, post) ==
    [row EXCEPT !.teacher = post.teacher,
                !.course = post.course,
                !.room = post.room,
                !.day_of_week = post.day_of_week,
                !.start_time = IF HasTimes(post) THEN post.start_time ELSE @,
                !.end_time = IF HasTimes(post) THEN post.end_time ELSE @,
                !.time_slot =
                    IF HasTimes(post)
                    THEN (IF time_slot_value(post.start_time, post.end_time) \in TIME_CHOICES
                          THEN time_slot_value(post.start_time, post.end_time) ELSE @)
                    ELSE (IF post.time_slot # NoSlot THEN post.time_slot ELSE @),
                !.semester = post.semester,
                !.academic_year = post.academic_year,
                !.is_holding = post.is_holding]

\* save_schedule_view with a schedule_id: the table afterwards
chart_update(db, pk, post) ==
    IF (IF HasTimes(post) THEN chart_conflict(db, pk, post)
                          ELSE chart_slot_conflict(db, pk, post))
    THEN db
    ELSE save(db, pk, chart_instance(db[pk], post), operator_skip_validation)

\* save_schedule_view without schedule_id: is the posted time_slot of the
\* room and day taken by an active schedule of the course's credit bucket?
chart_slot_full(db, post) ==
    \E i \in 1..Len(db) :
        /\ db[i].is_active
        /\ db[i].room = post.room
        /\ db[i].day_of_week = post.day_of_week
        /\ db[i].time_slot = post.time_slot
        /\ same_bucket(db[i].course, post.course)

\* save_schedule_view without schedule_id: schedule_data
chart_schedule_data(post) ==
    [post EXCEPT !.time_slot =
                    IF HasTimes(post)
                    THEN (IF time_slot_value(post.start_time, post.end_time) \in TIME_CHOICES
                          THEN time_slot_value(post.start_time, post.end_time) ELSE NoSlot)
                    ELSE @,
                 !.is_active = TRUE]

\* save_schedule_view without schedule_id: the table afterwards
chart_create(db, post) ==
    IF chart_slot_full(db, post) THEN db
    ELSE save(db, Len(db) + 1, chart_schedule_data(post), operator_skip_validation)

\* save_schedule_view for schedule pk, the popup posting the schedule's own
\* fields with the holding checkbox set to is_holding
save_schedule_view(db, pk, is_holding) ==
    chart_update(db, pk, [db[pk] EXCEPT !.is_holding = is_holding])

AutoReset ==
    /\ schedules' = auto_reset_cancelled_schedules(schedules, now)
    /\ sweep' = [op |-> "auto_reset_cancelled_schedules", raised |-> FALSE]
    /\ UNCHANGED <<courses, teachers, floors, rooms, jobs, pc, req, last>>
    /\ UNCHANGED <<now, cancellation_votes, confirmation_votes, accepted, response>>

Unhold(queryset) ==
    /\ schedules' = unhold_schedules(schedules, queryset)
    /\ sweep' = [op |-> "unhold_schedules", raised |-> FALSE]
    /\ UNCHANGED <<courses, teachers, floors, rooms, jobs, pc, req, last>>
    /\ UNCHANGED <<now, cancellation_votes, confirmation_votes, accepted, response>>

Hold(queryset) ==
    /\ schedules' = hold_schedules(schedules, queryset)
    /\ sweep' = [op |-> "hold_schedules", raised |-> FALSE]
    /\ UNCHANGED <<courses, teachers, floors, rooms, jobs, pc, req, last>>
    /\ UNCHANGED <<now, cancellation_votes, confirmation_votes, accepted, response>>

ChartSave(pk, is_holding) ==
    /\ pk \in 1..Len(schedules)
    /\ HasTimes(schedules[pk])
    /\ schedules' = save_schedule_view(schedules, pk, is_holding)
    /\ sweep' = [op |-> "save_schedule_view", raised |-> FALSE]
    /\ UNCHANGED <<courses, teachers, floors, rooms, jobs, pc, req, last>>
    /\ UNCHANGED <<now, cancellation_votes, confirmation_votes, accepted, response>>

\* the holding columns a row of the table can carry: holding, cancelled
\* without a timestamp, cancelled at minute 0 or 2, and held again with the
\* timestamp of an earlier cancellation still in place
HoldingStates ==
    { <<TRUE, NoTime>>, <<FALSE, NoTime>>, <<FALSE, 0>>, <<FALSE, 2>>, <<TRUE, 0>> }

\* three schedules that pass validation together
ExpiryRows ==
    << Schedule("c1", "t1", 318, "saturday", 450, 555, <<7, 30, 9, 15>>, NoSemester, "y1", TRUE),
       Schedule("c1", NoTeacher, 324, "saturday", 450, 555, <<7, 30, 9, 15>>, NoSemester, "y1", TRUE),
       Schedule("c1", "t1", 318, "sunday", 450, 555, <<7, 30, 9, 15>>, NoSemester, "y1", TRUE) >>

\* the instants at which the sweep or an admin acts: 119, 120 and 121
\* minutes after minute 0 (so 117, 118 and 119 minutes after minute 2), and 123
ExpiryInstants == {119, ResetMinutes, ResetMinutes + 1, ResetMinutes + 3}

InitExpiry ==
    /\ \E hs \in [1..Len(ExpiryRows) -> HoldingStates] :
          schedules = [ i \in 1..Len(ExpiryRows) |->
                          [ExpiryRows[i] EXCEPT !.is_holding = hs[i][1],
                                                !.cancelled_at = hs[i][2]] ]
    /\ courses = OpCourses
    /\ teachers = OpTeachers \ {NoTeacher}
    /\ floors = { floor_number(r) : r \in OpRooms }
    /\ rooms = OpRooms
    /\ jobs = << >>
    /\ pc = "idle"
    /\ req = Idle
    /\ last = Outcome("none", "ok", FALSE, << >>, NoSemester, FALSE, << >>, 0, 0, FALSE, -1)
    /\ now = 2
    /\ cancellation_votes = {}
    /\ confirmation_votes = {}
    /\ accepted = NoneAccepted
    /\ response = NoResponse
    /\ sweep = NoSweep

AdminUnhold == \E queryset \in SUBSET (1..Len(schedules)) : Unhold(queryset)

AdminHold == \E queryset \in SUBSET (1..Len(schedules)) : Hold(queryset)

AdminChartSave == \E pk \in 1..Len(schedules), is_holding \in BOOLEAN : ChartSave(pk, is_holding)

ExpiryTick == \E t \in ExpiryInstants : Tick(t)

NextExpiry == AdminUnhold \/ AdminHold \/ AdminChartSave \/ AutoReset \/ ExpiryTick

SpecExpiry == InitExpiry /\ [][NextExpiry]_vars

-----------------------------------------------------------------------------
(* The vote cleanup command: cleanup_old_votes *)

\* ClassCancellationVote.objects.filter(voted_at__lt=time_threshold)
old_votes(votes, t) == { v \in votes : v.voted_at < t - WindowMinutes }

\* filter(student_reported_not_holding=True, not_holding_reported_at__lt=time_threshold)
schedules_to_reset(db, t) ==
    { i \in 1..Len(db) : /\ db[i].student_reported_not_holding
                         /\ db[i].not_holding_reported_at # NoTime
                         /\ db[i].not_holding_reported_at < t - WindowMinutes }

\* the rank of a day name in the ascending order of the CharField day_of_week
day_collation(d) ==
    CASE d = "friday" -> 1 [] d = "monday" -> 2 [] d = "saturday" -> 3
      [] d = "sunday" -> 4 [] d = "thursday" -> 5 [] d = "tuesday" -> 6
      [] OTHER -> 7

\* Meta.ordering = [day_of_week, start_time, room__floor__floor_number]:
\* may row a be returned before row b?  (NULL start_time sorts first)
ordering_le(a, b) ==
    \/ day_collation(a.day_of_week) < day_collation(b.day_of_week)
    \/ /\ a.day_of_week = b.day_of_week
       /\ \/ a.start_time < b.start_time
          \/ /\ a.start_time = b.start_time
             /\ floor_number(a.room) <= floor_number(b.room)

\* the orders in which the database may return the rows pks of db
queryset_orders(db, pks) ==
    { o \in [1..Cardinality(pks) -> pks] :
        /\ \A i, j \in 1..Cardinality(pks) : i # j => o[i] # o[j]
        /\ \A i, j \in 1..Cardinality(pks) : i < j => ordering_le(db[o[i]], db[o[j]]) }

RECURSIVE reset_loop(_, _, _)
\* the loop `for schedule in schedules_to_reset`: clear the flag and its
\* timestamp and save(); the first exception of save() leaves the loop
reset_loop(db, order, k) ==
    IF k > Len(order) THEN [db |-> db, raised |-> FALSE]
    ELSE LET pk == order[k]
             inst == [db[pk] EXCEPT !.student_reported_not_holding = FALSE,
                                    !.not_holding_reported_at = NoTime]
         IN IF save_result(db, pk, inst, FALSE) # "ok"
            THEN [db |-> db, raised |-> TRUE]
            ELSE reset_loop(save(db, pk, inst, FALSE), order, k + 1)

\* Command.handle of cleanup_old_votes
Cleanup ==
    \E order \in queryset_orders(schedules, schedules_to_reset(schedules, now)) :
        LET r == reset_loop(schedules, order, 1)
        IN /\ cancellation_votes' = cancellation_votes \ old_votes(cancellation_votes, now)
           /\ schedules' = r.db
           /\ sweep' = [op |-> "cleanup_old_votes", raised |-> r.raised]
           /\ UNCHANGED <<courses, teachers, floors, rooms, jobs, pc, req, last>>
           /\ UNCHANGED <<now, confirmation_votes, accepted, response>>

\* the sheets imported before the students vote: one row, and two rows that
\* overlap in room 318 on Saturday
CleanupFiles ==
    { << Row("c1", "t1", 318, Cal(TRUE, "shanbe", 7, 30, 9, 15)) >>,
      << Row("c1", "t1", 318, Cal(TRUE, "shanbe", 7, 30, 9, 15)),
         Row("c2", "t2", 318, Cal(TRUE, "shanbe", 7, 30, 8, 0)) >>,
      << Row("c1", "t1", 318, Cal(TRUE, "shanbe", 7, 30, 9, 15)),
         Row("c2", "t2", 324, Cal(TRUE, "shanbe", 7, 30, 8, 0)) >> }

\* the votes cast: three clients against schedule 1, one for it, one
\* against schedule 2
CleanupVoteInputs ==
    { <<1, c, "cancellation">> : c \in Clients }
       \cup { <<1, "a", "confirmation">>, <<2, "a", "cancellation">> }

ImportBeforeVotes ==
    /\ jobs = << >>
    /\ \E file \in CleanupFiles : Import(file, "s1", FALSE)

CleanupVote ==
    /\ \E in \in CleanupVoteInputs : CastVote(in[1], in[2], in[3])
    /\ UNCHANGED <<courses, teachers, floors, rooms, jobs, pc, req, last, sweep>>

NextCleanup == ImportBeforeVotes \/ CleanupVote \/ ClockTick \/ Cleanup \/ AutoReset

SpecCleanup == Init /\ [][NextCleanup]_vars

-----------------------------------------------------------------------------
(* Properties *)

\* two [start, end) intervals share a point of time
Overlaps(a, b) ==
    /\ HasTimes(a) /\ HasTimes(b)
    /\ a.start_time < b.end_time /\ b.start_time < a.end_time

\* the pks a save of pk may write: an existing row or the next free pk
Targets == 1..(Len(schedules) + 1)

\* the other active rows of the candidate's room and day
SameRoomDay(pk, cand) ==
    { i \in 1..Len(schedules) : /\ i # pk /\ schedules[i].is_active
                                /\ schedules[i].room = cand.room
                                /\ schedules[i].day_of_week = cand.day_of_week }

\* the other active rows of the candidate's teacher and day
SameTeacherDay(pk, cand) ==
    { i \in 1..Len(schedules) : /\ i # pk /\ schedules[i].is_active
                                /\ cand.teacher # NoTeacher
                                /\ schedules[i].teacher = cand.teacher
                                /\ schedules[i].day_of_week = cand.day_of_week }

\* start before end and a duration of 30 minutes to 6 hours
RegularTiming(cand) ==
    /\ HasTimes(cand) /\ cand.start_time < cand.end_time
    /\ cand.end_time - cand.start_time >= 30
    /\ cand.end_time - cand.start_time <= 360

\* Invariant B on a table
RoomNonCollision(db) ==
    \A i, j \in 1..Len(db) :
        ( /\ i # j /\ db[i].is_active /\ db[j].is_active
          /\ db[i].room = db[j].room
          /\ db[i].day_of_week = db[j].day_of_week ) => ~Overlaps(db[i], db[j])

\* Invariant C on a table
TeacherNonCollision(db) ==
    \A i, j \in 1..Len(db) :
        ( /\ i # j /\ db[i].is_active /\ db[j].is_active
          /\ db[i].teacher # NoTeacher
          /\ db[i].teacher = db[j].teacher
          /\ db[i].day_of_week = db[j].day_of_week ) => ~Overlaps(db[i], db[j])

\* C1: concurrent validated saves are atomic with respect to each other: in
\* no interleaving of two requests are two overlapping candidates of one room
\* and day (or one teacher and day) both persisted as active schedules.
C1_ConcurrentSavesAtomic ==
    RoomNonCollision(schedules) /\ TeacherNonCollision(schedules)

\* C2: after any sequence of validated creates and updates, two distinct
\* active schedules of one room and day that have start/end never overlap.
C2_RoomNonCollision == RoomNonCollision(schedules)

C2_Witness ==
    /\ last.op = "save" /\ last.err = "ok"
    /\ \E i, j \in 1..Len(schedules) :
          /\ i # j /\ schedules[i].is_active /\ schedules[j].is_active
          /\ HasTimes(schedules[i]) /\ HasTimes(schedules[j])
          /\ schedules[i].room = schedules[j].room
          /\ schedules[i].day_of_week = schedules[j].day_of_week

\* C3: a validated save of a candidate with a teacher is rejected whenever
\* another active schedule of that teacher on that day overlaps it, whatever
\* the rooms, and the error is the teacher conflict when the timing fields
\* are regular and the candidate's room is free that day; so no two active
\* schedules of one teacher on one day overlap.
C3_TeacherNonCollision ==
    /\ TeacherNonCollision(schedules)
    /\ \A pk \in Targets, cand \in OpCandidates :
          (\E i \in SameTeacherDay(pk, cand) : Overlaps(cand, schedules[i])) =>
              /\ save_result(schedules, pk, cand, FALSE) # "ok"
              /\ save(schedules, pk, cand, FALSE) = schedules
              /\ (RegularTiming(cand) /\ SameRoomDay(pk, cand) = {}) =>
                    save_result(schedules, pk, cand, FALSE) = "teacher"

C3_Witness ==
    /\ last.op = "save" /\ last.err = "teacher"
    /\ \E i, j \in 1..Len(schedules) :
          /\ i # j /\ schedules[i].is_active /\ schedules[j].is_active
          /\ schedules[i].teacher # NoTeacher
          /\ schedules[i].teacher = schedules[j].teacher
          /\ schedules[i].day_of_week = schedules[j].day_of_week
          /\ schedules[i].room # schedules[j].room

\* C4: a candidate that starts exactly when an active schedule of its room
\* and day (or of its teacher and day) ends, and overlaps no schedule, is
\* saved with no conflict: is_time_conflict_with is false when a.end = b.start.
C4_BackToBackAccepted ==
    \A pk \in Targets, cand \in OpCandidates :
        ( /\ RegularTiming(cand)
          /\ \E i \in SameRoomDay(pk, cand) \cup SameTeacherDay(pk, cand) :
                schedules[i].end_time = cand.start_time
          /\ \A i \in SameRoomDay(pk, cand) \cup SameTeacherDay(pk, cand) :
                ~Overlaps(cand, schedules[i])
          /\ ~UniqueViolation(schedules, pk, cand) )
        => save_result(schedules, pk, cand, FALSE) = "ok"

\* C5: a validated save whose candidate overlaps an active schedule of its
\* room and day is rejected and leaves the table as it was (nothing inserted,
\* the updated row and the colliding row as persisted); with regular timing
\* fields the error is the room conflict.
C5_RoomConflictRejected ==
    /\ (last.op = "save" /\ last.err # "ok") => ~last.changed
    /\ \A pk \in Targets, cand \in OpCandidates :
          (\E i \in SameRoomDay(pk, cand) : Overlaps(cand, schedules[i])) =>
              /\ save(schedules, pk, cand, FALSE) = schedules
              /\ RegularTiming(cand) => save_result(schedules, pk, cand, FALSE) = "room"

C5_Witness ==
    /\ last.op = "save" /\ last.err = "room" /\ ~last.changed
    /\ Len(schedules) >= 1

\* C6: a candidate without teacher never fails with a teacher conflict,
\* whatever the table holds, and two teacher-less schedules that overlap in
\* one room and day still give a room conflict.
C6_NullTeacherNeverConflicts ==
    \A pk \in Targets, cand \in OpCandidates :
        cand.teacher = NoTeacher =>
            /\ save_result(schedules, pk, cand, FALSE) # "teacher"
            /\ ( /\ RegularTiming(cand)
                 /\ \E i \in SameRoomDay(pk, cand) :
                       schedules[i].teacher = NoTeacher /\ Overlaps(cand, schedules[i]) )
               => save_result(schedules, pk, cand, FALSE) = "room"

C6_Witness ==
    /\ last.op = "save" /\ last.err = "ok"
    /\ \E i, j \in 1..Len(schedules) :
          /\ i # j /\ schedules[i].is_active /\ schedules[j].is_active
          /\ schedules[i].teacher = NoTeacher /\ schedules[j].teacher = NoTeacher
          /\ schedules[i].day_of_week = schedules[j].day_of_week
          /\ Overlaps(schedules[i], schedules[j])

\* C7: for a candidate with start < end that no active schedule of its room
\* or teacher touches that day, validation fails with the duration error iff
\* end - start is below 30 minutes or above 6 hours (29 and 361 fail, 30 and
\* 360 pass).
C7_DurationBounds ==
    \A pk \in Targets, cand \in FieldCandidates :
        ( /\ HasTimes(cand) /\ cand.start_time < cand.end_time
          /\ SameRoomDay(pk, cand) = {} /\ SameTeacherDay(pk, cand) = {} )
        => ( save_result(schedules, pk, cand, FALSE) = "duration"
             <=> ( \/ cand.end_time - cand.start_time < 30
                   \/ cand.end_time - cand.start_time > 360 ) )

C7_Witness ==
    /\ last.op = "save" /\ last.err = "duration"
    /\ \E i, j \in 1..Len(schedules) :
          /\ schedules[i].end_time - schedules[i].start_time = 30
          /\ HasTimes(schedules[i])
          /\ schedules[j].end_time - schedules[j].start_time = 360
          /\ HasTimes(schedules[j])

\* the row passes every check of the row loop that precedes the upsert
WellFormedRow(row) ==
    /\ row.cal.match
    /\ row.cal.day_fa \in DOMAIN DAY_MAP
    /\ row.cal.sh \in 0..23 /\ row.cal.eh \in 0..23
    /\ row.cal.sm \in 0..59 /\ row.cal.em \in 0..59
    /\ row.course_code # ""
    /\ (row.cal.eh * 60 + row.cal.em) - (row.cal.sh * 60 + row.cal.sm) >= 30
    /\ (row.cal.eh * 60 + row.cal.em) - (row.cal.sh * 60 + row.cal.sm) <= 360

\* the table holds an active schedule of the row's room, day, start and end
\* under the semester of the import
RowPersisted(row, semester) ==
    \E i \in 1..Len(schedules) :
        /\ schedules[i].is_active
        /\ schedules[i].semester = semester
        /\ schedules[i].room = row.room_name
        /\ schedules[i].day_of_week = DAY_MAP[row.cal.day_fa]
        /\ schedules[i].start_time = row.cal.sh * 60 + row.cal.sm
        /\ schedules[i].end_time = row.cal.eh * 60 + row.cal.em

C9_ImportIdempotent ==
    (last.op = "import" /\ last.rerun_of >= 0) =>
        /\ last.inserted = 0
        /\ last.updated = last.rerun_of
        /\ ~last.changed

\* C10: in a real import every row counted as inserted or updated is
\* persisted whatever happens to the other rows, and every well-formed row
\* is processed: it is upserted or fails on its own unique key, whatever
\* failed in the rows before it.
C10_RowsIndependent ==
    (last.op = "import" /\ ~last.dry_run) =>
        \A i \in 1..Len(last.file) :
            /\ last.results[i] \in {"inserted", "updated"} =>
                  RowPersisted(last.file[i], last.semester)
            /\ WellFormedRow(last.file[i]) =>
                  last.results[i] \in {"inserted", "updated", "duplicate_schedules"}

\* C11: an import with dry_run = true leaves the Course, Teacher, Floor, Room
\* and ClassSchedule tables as they were and adds only the ImportJob row,
\* whatever the rows contain; the counts and the outcome of every row it
\* returns are those the row loop computes from the same store for a real run.
C11_DryRunChangesNothing ==
    [][ (Len(jobs') = Len(jobs) + 1 /\ last'.dry_run) =>
          /\ UNCHANGED <<schedules, courses, teachers, floors, rooms>>
          /\ jobs'[Len(jobs')].dry_run
          /\ LET real == import_tx(schedules, courses, teachers, floors, rooms,
                                   last'.file, last'.semester, "y1")
             IN /\ last'.inserted = real.inserted
                /\ last'.updated = real.updated
                /\ last'.results = real.results
                /\ jobs'[Len(jobs')].total = Len(last'.file) ]_vars

\* a dry run that reported an inserted row and a row error, with the row it
\* counted not persisted and the teacher and course of the sheet not created
C11_Witness ==
    /\ last.op = "import" /\ last.dry_run
    /\ last.inserted >= 1
    /\ \E i \in 1..Len(last.results) : last.results[i] = "parsing_errors"
    /\ \E i \in 1..Len(last.file) :
          /\ last.results[i] = "inserted"
          /\ ~RowPersisted(last.file[i], last.semester)
          /\ last.file[i].course_code \notin courses
    /\ Len(jobs) >= 1 /\ jobs[Len(jobs)].dry_run

\* the vote rows of one direction
Pool(direction) ==
    IF direction = "cancellation" THEN cancellation_votes ELSE confirmation_votes

\* the votes of a pool for schedule s that are at most 24 hours old
InWindow(votes, s) ==
    { v \in votes : v.schedule = s /\ now - v.voted_at <= 1440 }

\* the step is a vote request (the clock stands still) that was answered
VoteStep == now' = now /\ response'.error = "none"

\* C12: a CastVote by a fingerprint that has a vote of the same direction
\* for the same schedule within the last 24 hours is rejected as already
\* voted: no vote row is recorded, no opposing vote is deleted, and the count
\* it returns is the count before the attempt.
C12_VoteDedup ==
    [][ ( /\ VoteStep
          /\ \E v \in InWindow(Pool(response'.direction), response'.schedule) :
                v.voter_identifier = <<response'.client, response'.direction>> )
        => ( /\ ~response'.success /\ response'.already_voted
             /\ UNCHANGED <<cancellation_votes, confirmation_votes, schedules, accepted>>
             /\ response'.vote_count =
                   Cardinality(InWindow(Pool(response'.direction), response'.schedule)) ) ]_vars

\* a second vote of one client was just rejected while other clients' votes
\* of both directions are in the window, its first vote being 24 hours old
C12_Witness ==
    /\ response.error = "none" /\ response.already_voted
    /\ \E v \in Pool(response.direction) :
          /\ v.schedule = response.schedule
          /\ v.voter_identifier = <<response.client, response.direction>>
          /\ now - v.voted_at = 1440
    /\ Pool(Opposite(response.direction)) # {}
    /\ response.vote_count >= 2

\* C13: for every schedule, client and direction at most one vote is
\* accepted within any 24-hour window, whatever votes are cast in between,
\* votes that trigger the balancing deletion included: when a vote is
\* accepted, no vote of the same client, schedule and direction was accepted
\* less than 24 hours before.
C13_RateLimit ==
    [][ (VoteStep /\ response'.success) =>
          ~\E a \in accepted.votes :
              /\ a.schedule = response'.schedule
              /\ a.client = response'.client
              /\ a.direction = response'.direction
              /\ now - a.at < 1440 ]_vars

\* the vote rows of one direction after the step
PoolNext(direction) ==
    IF direction = "cancellation" THEN cancellation_votes' ELSE confirmation_votes'

\* the votes of a pool for the schedules other than s
OtherSchedules(votes, s) == { v \in votes : v.schedule # s }

\* C14: every accepted vote of direction X for schedule S adds exactly its
\* own row to the pool of X, so the in-window count of X for S grows by one,
\* and deletes exactly one opposing vote of S, one with the oldest timestamp
\* among those at most 24 hours old, when there is one (else the opposing
\* pool is unchanged); votes of other schedules are never touched.
C14_VoteBalancing ==
    [][ (VoteStep /\ response'.success) =>
          LET X == response'.direction
              s == response'.schedule
              own == Pool(X)
              opp == Pool(Opposite(X))
              ownNext == PoolNext(X)
              oppNext == PoolNext(Opposite(X))
          IN /\ ownNext = own \cup {Vote(s, <<response'.client, X>>, now)}
             /\ Cardinality({ v \in ownNext : v.schedule = s /\ now - v.voted_at <= 1440 })
                  = Cardinality(InWindow(own, s)) + 1
             /\ response'.vote_count = Cardinality(InWindow(own, s)) + 1
             /\ IF InWindow(opp, s) = {}
                THEN oppNext = opp
                ELSE \E v \in InWindow(opp, s) :
                        /\ oppNext = opp \ {v}
                        /\ \A w \in InWindow(opp, s) : v.voted_at <= w.voted_at
             /\ OtherSchedules(ownNext, s) = OtherSchedules(own, s)
             /\ OtherSchedules(oppNext, s) = OtherSchedules(opp, s) ]_vars

\* two confirmation votes of schedule 1 were accepted, at 0 and 24 hours
\* later, then one cancellation vote: one confirmation vote, the newer one,
\* and one cancellation vote are left, and the vote of schedule 2 is in place
C14_Witness ==
    /\ response.error = "none" /\ response.success
    /\ response.direction = "cancellation" /\ response.schedule = 1
    /\ response.vote_count = 1 /\ response.other_count = 1
    /\ Cardinality({ a \in accepted.votes : a.direction = "confirmation" /\ a.schedule = 1 }) = 2
    /\ \E a \in accepted.votes : a.direction = "confirmation" /\ a.schedule = 1 /\ a.at = 0
    /\ \A v \in confirmation_votes : v.voted_at = 1440
    /\ Cardinality(confirmation_votes) = 1
    /\ \E v \in cancellation_votes : v.schedule = 2
    /\ accepted.n = 4

\* the number of votes of a direction for schedule s, after the step, whose
\* timestamp lies within the trailing 24 hours
CountNext(direction, s) ==
    Cardinality({ v \in PoolNext(direction) : v.schedule = s /\ now - v.voted_at <= 1440 })

\* C15: after every accepted vote on schedule S the threshold flag and the
\* student-reported flag returned for the voted direction, and the two
\* student-reported flags stored on S, are true exactly when that
\* direction has at least 3 votes for S within the trailing 24 hours.
C15_VoteThreshold ==
    [][ (VoteStep /\ response'.success) =>
          LET X == response'.direction
              s == response'.schedule
          IN /\ response'.threshold_reached <=> CountNext(X, s) >= 3
             /\ response'.student_reported <=> CountNext(X, s) >= 3
             /\ schedules'[s].student_reported_not_holding <=> CountNext("cancellation", s) >= 3
             /\ schedules'[s].student_reported_holding <=> CountNext("confirmation", s) >= 3 ]_vars

\* four cancellation votes of schedule 1 are stored, one of them older than
\* 24 hours: the third in-window vote, of a third client, reached the threshold
C15_Witness ==
    /\ response.error = "none" /\ response.success
    /\ response.direction = "cancellation" /\ response.schedule = 1
    /\ Cardinality({ v \in cancellation_votes : v.schedule = 1 }) = 4
    /\ \E v \in cancellation_votes : v.schedule = 1 /\ now - v.voted_at > 1440
    /\ { v.voter_identifier[1] : v \in InWindow(cancellation_votes, 1) } = {"a", "b", "c"}
    /\ response.vote_count = 3 /\ response.threshold_reached
    /\ schedules[1].student_reported_not_holding
    /\ ~schedules[1].student_reported_holding

C17_AdminCancellationStamped ==
    [][ (sweep'.op \in {"unhold_schedules", "save_schedule_view"} /\ now' = now) =>
          \A i \in 1..Len(schedules) :
              (schedules[i].is_holding /\ ~schedules'[i].is_holding)
                 => schedules'[i].cancelled_at = now ]_vars

\* the step is one run of the cleanup command: no clock tick, vote request
\* or import
CleanupStep == sweep'.op = "cleanup_old_votes" /\ UNCHANGED <<now, response, accepted, jobs>>

\* C18: after one run of the cleanup sweep no vote of either kind older than
\* 24 hours remains, no vote at most 24 hours old has been deleted, and
\* every schedule whose not-holding flag was set by a report older than 24
\* hours has the flag false and the report timestamp null.
C18_CleanupEffect ==
    [][ CleanupStep =>
          /\ \A v \in cancellation_votes' \cup confirmation_votes' : now - v.voted_at <= 1440
          /\ \A v \in cancellation_votes : now - v.voted_at <= 1440 => v \in cancellation_votes'
          /\ \A v \in confirmation_votes : now - v.voted_at <= 1440 => v \in confirmation_votes'
          /\ \A i \in 1..Len(schedules) :
                (/\ schedules[i].student_reported_not_holding
                 /\ schedules[i].not_holding_reported_at # NoTime
                 /\ now - schedules[i].not_holding_reported_at > 1440)
                  => /\ ~schedules'[i].student_reported_not_holding
                     /\ schedules'[i].not_holding_reported_at = NoTime ]_vars

\* C19: neither the auto-expiry sweep nor the vote cleanup sweep raises to
\* its caller, whatever the store holds.
C19_SweepsNeverRaise == ~sweep.raised

\* the operation that ran last met the compound-unique key: a save refused
\* by validate_unique or by the database, or an import with such a row
DuplicateReported ==
    \/ last.op = "save" /\ last.err \in {"unique", "integrity"}
    \/ /\ last.op = "import"
       /\ \E i \in 1..Len(last.results) : last.results[i] = "duplicate_schedules"

\* C20: no two persisted schedules, active or not, have the same room,
\* day of week, start and end; an operation that tried to create a second
\* such row has created no row.
C20_CompoundUnique ==
    /\ \A i, j \in 1..Len(schedules) :
          (/\ i # j
           /\ schedules[i].start_time # NoTime /\ schedules[i].end_time # NoTime
           /\ schedules[i].room = schedules[j].room
           /\ schedules[i].day_of_week = schedules[j].day_of_week)
            => ~(/\ schedules[i].start_time = schedules[j].start_time
                 /\ schedules[i].end_time = schedules[j].end_time)
    /\ DuplicateReported => ~last.changed

\* a real import under semester s2 met the key of a row persisted under
\* semester s1: the row was refused and the store still holds the key once
C20_Witness ==
    /\ last.op = "import" /\ ~last.dry_run /\ last.semester = "s2"
    /\ \E i \in 1..Len(last.results) : last.results[i] = "duplicate_schedules"
    /\ \E k \in 1..Len(last.file) : \E i \in 1..Len(schedules) :
          /\ schedules[i].semester = "s1"
          /\ schedules[i].room = last.file[k].room_name
          /\ schedules[i].start_time = _safe_time(last.file[k].cal.sh, last.file[k].cal.sm)
          /\ schedules[i].end_time = _safe_time(last.file[k].cal.eh, last.file[k].cal.em)

\* C22: a validated create of a candidate with neither start/end nor a
\* time_slot is rejected with the missing-timing error and persists nothing;
\* a validated create of a candidate with teacher, course, room, day and a
\* time_slot only is persisted and reads back those five values.
C22_TimingPresence ==
    \A cand \in FieldCandidates :
        LET pk == Len(schedules) + 1
            db == save(schedules, pk, cand, FALSE)
        IN Len(schedules) < MaxSchedules =>
             /\ (cand.start_time = NoTime /\ cand.end_time = NoTime /\ cand.time_slot = << >>)
                   => /\ save_result(schedules, pk, cand, FALSE) = "timing"
                      /\ db = schedules
             /\ (cand.start_time = NoTime /\ cand.end_time = NoTime /\ cand.time_slot # << >>)
                   => /\ Len(db) = pk
                      /\ db[pk].teacher = cand.teacher /\ db[pk].course = cand.course
                      /\ db[pk].room = cand.room /\ db[pk].day_of_week = cand.day_of_week
                      /\ db[pk].time_slot = cand.time_slot

\* the candidate and the row share a point of time as the conflict scans
\* of clean() compare them (end points included)
Collides(cand, row) ==
    /\ cand.start_time # NoTime /\ cand.end_time # NoTime
    /\ row.start_time # NoTime /\ row.end_time # NoTime
    /\ ~(cand.end_time < row.start_time \/ row.end_time < cand.start_time)

\* C24: a validated save reports the first failing check in the order timing
\* presence, start/end ordering, duration bounds, room conflict, teacher
\* conflict: a candidate with start >= end or a duration out of range gets
\* that error even when it collides with another schedule, and a candidate
\* that collides both in its room and with its teacher gets the room conflict.
C24_ValidationOrder ==
    \A pk \in Targets, cand \in FieldCandidates :
        LET err == save_result(schedules, pk, cand, FALSE)
            inRoom == \E i \in SameRoomDay(pk, cand) : Collides(cand, schedules[i])
            ofTeacher == \E i \in SameTeacherDay(pk, cand) : Collides(cand, schedules[i])
            timed == cand.start_time # NoTime /\ cand.end_time # NoTime
            minutes == cand.end_time - cand.start_time
        IN /\ (~timed /\ cand.time_slot = << >>) => err = "timing"
           /\ (timed /\ cand.start_time >= cand.end_time) => err = "order"
           /\ (timed /\ cand.start_time < cand.end_time /\ (minutes < 30 \/ minutes > 360))
                 => err = "duration"
           /\ (timed /\ cand.start_time < cand.end_time /\ minutes >= 30 /\ minutes <= 360)
                 => /\ inRoom => err = "room"
                    /\ (~inRoom /\ ofTeacher) => err = "teacher"
                    /\ err \notin {"timing", "order", "duration"}

\* a save was rejected for its duration while the room of the candidate
\* (318 on Saturday, from 07:30) holds an active schedule that starts at
\* 07:30 and that teacher t1 holds too
C24_Witness ==
    /\ last.op = "save" /\ last.err = "duration"
    /\ \E i \in 1..Len(schedules) :
          /\ schedules[i].is_active /\ schedules[i].room = 318
          /\ schedules[i].day_of_week = "saturday" /\ schedules[i].start_time = 450
          /\ schedules[i].teacher = "t1"

\* C25: a validated save of a persisted schedule is checked against the
\* other active schedules only: it succeeds whenever no other active
\* schedule of its room or teacher collides with the candidate and no other
\* row holds its key (so keeping the interval, or shrinking it within the
\* row's own slot, is never rejected because of the row itself), and it is
\* rejected, with the table unchanged, whenever the candidate overlaps
\* another active schedule of its room and day.
C25_UpdateExcludesSelf ==
    \A pk \in 1..Len(schedules), cand \in OpCandidates :
        LET err == save_result(schedules, pk, cand, FALSE)
            others == SameRoomDay(pk, cand) \cup SameTeacherDay(pk, cand)
            sameKey == \E i \in 1..Len(schedules) :
                          /\ i # pk
                          /\ schedules[i].room = cand.room
                          /\ schedules[i].day_of_week = cand.day_of_week
                          /\ schedules[i].start_time = cand.start_time
                          /\ schedules[i].end_time = cand.end_time
        IN /\ ((\A i \in others : ~Collides(cand, schedules[i])) /\ ~sameKey) => err = "ok"
           /\ (\E i \in SameRoomDay(pk, cand) : Overlaps(cand, schedules[i]))
                 => /\ err # "ok"
                    /\ save(schedules, pk, cand, FALSE) = schedules

\* the table is full, so the save that ran last was an update, and it was
\* rejected for a room conflict with the other row, while saving either
\* active row again as persisted would succeed
C25_Witness ==
    /\ Len(schedules) = MaxSchedules
    /\ last.op = "save" /\ last.err = "room" /\ ~last.changed
    /\ \E pk \in 1..Len(schedules) :
          /\ schedules[pk].is_active
          /\ save_result(schedules, pk, schedules[pk], FALSE) = "ok"
          /\ \E i \in 1..Len(schedules) :
                /\ i # pk /\ schedules[i].is_active
                /\ schedules[i].room = schedules[pk].room
                /\ schedules[i].day_of_week = schedules[pk].day_of_week

-----------------------------------------------------------------------------
(* The operator paths: admin form and chart save endpoint *)

\* time_slot values an operator posts: none, or the label 07:30-09:15
PostSlots == { NoSlot, <<7, 30, 9, 15>> }

\* <<start_time, end_time>> an operator posts: the times of OpTimes, or none
PostTimes == OpTimes \cup { <<NoTime, NoTime>> }

\* what an operator posts for a schedule of Saturday without teacher: any
\* room, any start/end and any time_slot, whether they agree or not
PostCandidates ==
    { Schedule("c1", NoTeacher, r, "saturday", tm[1], tm[2], slot, NoSemester, "y1", TRUE) :
        r \in OpRooms, tm \in PostTimes, slot \in PostSlots }

\* save_schedule_view with a schedule_id: the error returned ("ok" on success)
chart_update_result(db, pk, post) ==
    IF (IF HasTimes(post) THEN chart_conflict(db, pk, post)
                          ELSE chart_slot_conflict(db, pk, post))
    THEN "chart_conflict"
    ELSE save_result(db, pk, chart_instance(db[pk], post), operator_skip_validation)

\* save_schedule_view without schedule_id: the error returned ("ok" on success)
chart_create_result(db, post) ==
    IF chart_slot_full(db, post) THEN "chart_conflict"
    ELSE save_result(db, Len(db) + 1, chart_schedule_data(post), operator_skip_validation)

\* the outcome of one request to the chart save endpoint
ChartOutcome(op, err, changed) ==
    Outcome(op, err, changed, << >>, NoSemester, FALSE, << >>, 0, 0, FALSE, -1)

\* the add / change form of ClassScheduleAdmin: the posted fields are
\* validated by the form and saved by save_model through ClassSchedule.save()
FormSave == \E pk \in 1..MaxSchedules, cand \in PostCandidates : Save(pk, cand)

\* one POST of the chart popup for the persisted schedule pk
ChartUpdateOf(pk, post) ==
    /\ pk \in 1..Len(schedules)
    /\ schedules' = chart_update(schedules, pk, post)
    /\ last' = ChartOutcome("chart_update", chart_update_result(schedules, pk, post),
                            chart_update(schedules, pk, post) # schedules)
    /\ UNCHANGED <<courses, teachers, floors, rooms, jobs, pc, req>>
    /\ UNCHANGED voteVars

\* one POST of the chart popup without schedule_id
ChartCreateOf(post) ==
    /\ Len(schedules) < MaxSchedules
    /\ schedules' = chart_create(schedules, post)
    /\ last' = ChartOutcome("chart_create", chart_create_result(schedules, post),
                            chart_create(schedules, post) # schedules)
    /\ UNCHANGED <<courses, teachers, floors, rooms, jobs, pc, req>>
    /\ UNCHANGED voteVars

ChartUpdate == \E pk \in 1..MaxSchedules, post \in PostCandidates : ChartUpdateOf(pk, post)

ChartCreate == \E post \in PostCandidates : ChartCreateOf(post)

NextOperator == FormSave \/ ChartUpdate \/ ChartCreate

SpecOperator == Init /\ [][NextOperator]_vars

\* the label HH:MM-HH:MM of a schedule's start/end
DerivedLabel(s) == time_slot_value(s.start_time, s.end_time)

\* C27: on save of a schedule with start/end and an empty time_slot, the
\* persisted time_slot is the label HH:MM-HH:MM of start/end when that label
\* is one of the ten predefined ones and stays empty otherwise; a non-empty
\* time_slot is persisted as it was given.
C27_LabelDerivation ==
    \A pk \in 1..(Len(schedules) + 1), cand \in PostCandidates :
        LET db == save(schedules, pk, cand, FALSE) IN
        (pk <= MaxSchedules /\ save_result(schedules, pk, cand, FALSE) = "ok") =>
            /\ Cardinality(TIME_CHOICES) = 10
            /\ (HasTimes(cand) /\ cand.time_slot = NoSlot /\ DerivedLabel(cand) \in TIME_CHOICES)
                  => db[pk].time_slot = DerivedLabel(cand)
            /\ (HasTimes(cand) /\ cand.time_slot = NoSlot /\ DerivedLabel(cand) \notin TIME_CHOICES)
                  => db[pk].time_slot = NoSlot
            /\ cand.time_slot # NoSlot => db[pk].time_slot = cand.time_slot
            /\ db[pk].start_time = cand.start_time /\ db[pk].end_time = cand.end_time

\* two persisted schedules: one posted with 09:15-11:00 and no time_slot now
\* carries the derived label, the other was posted with a time_slot that its
\* start/end do not spell and carries it unchanged
C27_Witness ==
    /\ last.op = "save" /\ last.changed
    /\ \E i, j \in 1..Len(schedules) :
          /\ schedules[i].start_time = 555 /\ schedules[i].time_slot = <<9, 15, 11, 0>>
          /\ schedules[j].start_time = 450 /\ schedules[j].end_time = 480
          /\ schedules[j].time_slot = <<7, 30, 9, 15>>

\* C28: every persisted schedule that has start/end and a non-empty
\* time_slot carries the label HH:MM-HH:MM of its current start/end.
C28_LabelConsistency ==
    \A i \in 1..Len(schedules) :
        (HasTimes(schedules[i]) /\ schedules[i].time_slot # NoSlot)
            => schedules[i].time_slot = DerivedLabel(schedules[i])

\* one step of an operator path: an admin form save or a chart request
OperatorStep == last'.op \in {"save", "chart_update", "chart_create"} /\ UNCHANGED voteVars

\* C21: every create or update through the admin form or the chart save
\* endpoint persists at most one row, and the row it persists passed the
\* full validation pipeline against the table as it was before the request.
C21_OperatorPathsValidate ==
    [][ (OperatorStep /\ schedules' # schedules) =>
          \E pk \in 1..Len(schedules') :
              /\ schedules' = db_write(schedules, pk, schedules'[pk])
              /\ full_clean(schedules, pk, schedules'[pk]) = "ok" ]_vars

\* the chart endpoint has persisted an update, and a form save of a schedule
\* that overlaps a persisted one of its room would be turned down
C21_Witness ==
    /\ last.op = "chart_update" /\ last.changed /\ last.err = "ok"
    /\ \E pk \in 1..(Len(schedules) + 1), cand \in PostCandidates :
          save_result(schedules, pk, cand, operator_skip_validation) \in {"room", "timing"}

-----------------------------------------------------------------------------
(* The admin bulk actions that switch is_active *)

\* queryset.update(is_active=value) on the selected rows: no instance is
\* loaded, neither clean() nor save() runs
update_is_active(db, selected, value) ==
    [ i \in 1..Len(db) |-> IF i \in selected THEN [db[i] EXCEPT !.is_active = value] ELSE db[i] ]

\* ClassScheduleAdmin.activate_schedules
activate_schedules(db, selected) == update_is_active(db, selected, TRUE)

\* ClassScheduleAdmin.deactivate_schedules
deactivate_schedules(db, selected) == update_is_active(db, selected, FALSE)

\* the outcome of one bulk action
BulkOutcome(op, changed) ==
    Outcome(op, "ok", changed, << >>, NoSemester, FALSE, << >>, 0, 0, FALSE, -1)

\* the rows an operator ticks in the change list
Selections == SUBSET (1..Len(schedules)) \ { {} }

ActivateSelected(selected) ==
    /\ schedules' = activate_schedules(schedules, selected)
    /\ last' = BulkOutcome("activate_schedules", activate_schedules(schedules, selected) # schedules)
    /\ UNCHANGED <<courses, teachers, floors, rooms, jobs, pc, req>>
    /\ UNCHANGED voteVars

DeactivateSelected(selected) ==
    /\ schedules' = deactivate_schedules(schedules, selected)
    /\ last' = BulkOutcome("deactivate_schedules", deactivate_schedules(schedules, selected) # schedules)
    /\ UNCHANGED <<courses, teachers, floors, rooms, jobs, pc, req>>
    /\ UNCHANGED voteVars

BulkActivate == \E selected \in Selections : ActivateSelected(selected)

BulkDeactivate == \E selected \in Selections : DeactivateSelected(selected)

\* validated saves of the active candidates of Saturday
BulkSave == \E pk \in 1..MaxSchedules, cand \in SaturdayCandidates : Save(pk, cand)

NextBulk == BulkSave \/ BulkDeactivate \/ BulkActivate

SpecBulk == Init /\ [][NextBulk]_vars

\* C29: after any sequence of validated saves, bulk deactivations and bulk
\* activations, no two active schedules of one room and day overlap and no
\* two active schedules of one teacher and day overlap.
C29_ReactivationKeepsNonCollision ==
    /\ RoomNonCollision(schedules)
    /\ TeacherNonCollision(schedules)

-----------------------------------------------------------------------------
(* The counts of an import against the store *)

\* rows i and j of a file name the same room, day, start and end
SameKey(file, i, j) ==
    /\ file[i].room_name = file[j].room_name
    /\ file[i].cal = file[j].cal

\* db holds an active schedule of the semester with the row's course,
\* teacher, room, day, start and end
RowStored(db, row, semester) ==
    \E k \in 1..Len(db) :
        /\ db[k].is_active
        /\ db[k].semester = semester
        /\ db[k].course = row.course_code
        /\ db[k].teacher = (IF row.teacher_name = "" THEN DefaultTeacherName ELSE row.teacher_name)
        /\ db[k].room = row.room_name
        /\ db[k].day_of_week = DAY_MAP[row.cal.day_fa]
        /\ db[k].start_time = row.cal.sh * 60 + row.cal.sm
        /\ db[k].end_time = row.cal.eh * 60 + row.cal.em

\* a real import whose job row ends with status completed
CompletedRealImport ==
    /\ Len(jobs') = Len(jobs) + 1
    /\ last'.op = "import" /\ ~last'.dry_run
    /\ jobs'[Len(jobs')].status = "completed"

\* C30: after a real import whose job ends completed, the schedule table has
\* grown by exactly the returned inserted count, and every row counted as
\* inserted or updated (and not upserted again by a later row of the file) is
\* persisted with its course, teacher, room, day, start and end.
C30_CountsMatchStore ==
    [][ CompletedRealImport =>
          /\ Len(schedules') = Len(schedules) + last'.inserted
          /\ \A i \in 1..Len(last'.file) :
                ( /\ last'.results[i] \in {"inserted", "updated"}
                  /\ \A j \in (i + 1)..Len(last'.file) : ~SameKey(last'.file, i, j) )
                => RowStored(schedules', last'.file[i], last'.semester) ]_vars

\* the same statement for the imports whose transaction was committed
CountsMatchStoreWhenCommitted ==
    [][ (CompletedRealImport /\ last'.committed) =>
          /\ Len(schedules') = Len(schedules) + last'.inserted
          /\ \A i \in 1..Len(last'.file) :
                ( /\ last'.results[i] \in {"inserted", "updated"}
                  /\ \A j \in (i + 1)..Len(last'.file) : ~SameKey(last'.file, i, j) )
                => RowStored(schedules', last'.file[i], last'.semester) ]_vars

-----------------------------------------------------------------------------
(* The header check of an import and its audit row *)

\* required_cols: course code, course name, class calendar, teacher's full
\* name, place name, theory units (canonical headers after _map_headers)
required_cols ==
    { "course_code", "course_name", "class_calendar", "teacher_full_name",
      "place_name", "theory_units" }

\* the canonical headers of the sheets: all required ones, or the calendar
\* column missing
SheetColumns == { required_cols, required_cols \ {"class_calendar"} }

\* missing = [col for col in required_cols if col not in df.columns]
missing(columns) == required_cols \ columns

\* import_ai_excel on a sheet with the given headers: ValueError before the
\* ImportJob row is created when a required column is missing, else the import
ImportSheet(columns, file, semester, dry_run) ==
    IF missing(columns) # {}
    THEN /\ last' = Outcome("import", "missing_columns", FALSE, << >>, semester, dry_run,
                            << >>, 0, 0, FALSE, -1)
         /\ UNCHANGED <<schedules, courses, teachers, floors, rooms, jobs, pc, req>>
         /\ UNCHANGED voteVars
    ELSE Import(file, semester, dry_run)

AuditedImport ==
    \E columns \in SheetColumns, file \in ImportFiles, semester \in ImportSemesters, dry_run \in BOOLEAN :
        ImportSheet(columns, file, semester, dry_run)

NextAudit == AuditedImport

SpecAudit == Init /\ [][NextAudit]_vars

\* the step of one invocation of the import has added one finalized ImportJob
\* row, with the counts the invocation returned, and touched no other row
OneFinalizedJob ==
    /\ Len(jobs') = Len(jobs) + 1
    /\ \A i \in 1..Len(jobs) : jobs'[i] = jobs[i]
    /\ jobs'[Len(jobs')].status \in {"completed", "failed"}
    /\ jobs'[Len(jobs')].total = Len(last'.file)
    /\ jobs'[Len(jobs')].inserted = last'.inserted
    /\ jobs'[Len(jobs')].updated = last'.updated

\* C23: every invocation of the import, one that aborts on a missing
\* required column included, adds exactly one ImportJob row, and when the
\* invocation is over that row is completed or failed and carries the
\* returned total, inserted and updated counts.
C23_OneJobPerInvocation ==
    [][ last'.op = "import" => OneFinalizedJob ]_vars

\* the same statement for the invocations that pass the header check
OneJobPerResolvedInvocation ==
    [][ (last'.op = "import" /\ last'.err = "ok") => OneFinalizedJob ]_vars

-----------------------------------------------------------------------------
(* The frame of a vote request *)

\* the columns of a schedule that operators control
AdminColumns(sch) ==
    << sch.is_holding, sch.cancelled_at, sch.room, sch.day_of_week, sch.start_time,
       sch.end_time, sch.course, sch.teacher, sch.is_active, sch.time_slot >>

====
